---- MODULE Spec2Model ----
(***************************************************************************)
(* Ledger model of the bank platform.                                      *)
(*                                                                         *)
(* Two independent implementations of the ledger live in the repository:   *)
(*   - the Django REST app (django-banking-app/accounts): AccountViewSet   *)
(*     with its transfer and deposit actions and the generic ModelViewSet  *)
(*     update through AccountSerializer;                                   *)
(*   - the Flask app (src/api/banking_routes.py) on top of                 *)
(*     DatabaseService (src/database/service.py), where every service      *)
(*     call opens, commits and closes its own session.                     *)
(*                                                                         *)
(* Money is modelled in whole minor units (integers; the rounding of the   *)
(* Flask app's Float columns is not modelled).  Each request is a          *)
(* process; the places where a request can be preempted by another one     *)
(* are the boundaries between database transactions.                       *)
(***************************************************************************)
EXTENDS Integers, Sequences, FiniteSets, TLC

(* ------------------------------ bounds --------------------------------- *)
\* number of requests served in one behaviour (each request slot is used once)
MaxReq == 2
\* largest amount a request may carry
MaxAmount == 2
\* magnitude of the most negative amount a request may carry (invalid
\* amounts, zero and negative, are inputs too)
MaxNegative == 1

(* --------------------------- fixed test data --------------------------- *)
\* primary keys of the accounts that exist
Accounts == {1, 2, 3}
\* a primary key / account number that names no account
MissingAccount == CHOOSE n \in 1..4 : n \notin Accounts
\* the users who send requests; account a is owned by user Owner(a) (the
\* owner of account 3 sends none)
Users == {1, 2}
Owner(a) == a
\* opening balances of the accounts
OpeningBalance(a) == IF a = 1 THEN 2 ELSE 1

Req == 1..MaxReq
Amounts == (0 - MaxNegative)..MaxAmount
ReceiverIds == Accounts \cup {MissingAccount}

VARIABLES
    \* ---- Django app ----
    balance,        \* Account.balance column, per account row
    acctStatus,     \* Account.status column, per account row
    transfers,      \* rows of Transfer, in creation order
    transactions,   \* rows of Transaction, in creation order
    req,            \* per Django request: position and local variables
    cards,          \* rows of VirtualCard, in creation order
    \* ---- Flask app ----
    fBalance,       \* accounts.balance column, per account row
    fTransactions,  \* rows of transactions (a set; ids are fresh uuids)
    fLedger,        \* rows of ledger per account_id, in creation order
    fReq,           \* per Flask request: position and local variables
    \* ---- Flask database, as the provisioning scripts use it ----
    dbUsers,        \* rows of users (the usernames)
    dbAccounts,     \* rows of accounts, in creation order
    dbCards,        \* rows of virtual_cards, in creation order
    script          \* the run of a script: position and local variables

djVars == <<balance, acctStatus, transfers, transactions, req>>
flVars == <<fBalance, fTransactions, fLedger, fReq>>
cardVars == <<cards>>
scriptVars == <<dbUsers, dbAccounts, dbCards, script>>
vars == <<balance, acctStatus, transfers, transactions, req,
          fBalance, fTransactions, fLedger, fReq, cards,
          dbUsers, dbAccounts, dbCards, script>>

(* ----------------------------- helpers --------------------------------- *)
RECURSIVE SumSeq(_, _)
\* sum of f[i] over i in 1..n
SumSeq(f, n) == IF n = 0 THEN 0 ELSE f[n] + SumSeq(f, n - 1)

(* ============================ Django app =============================== *)
IdleReq ==
    [pc |-> "idle", op |-> "none", user |-> 0, pk |-> 0,
     receiver_account_id |-> 0, amount |-> 0, balance |-> 0,
     status |-> "none", status_code |-> 0,
     receiver_balance |-> 0, debited |-> FALSE,
     daily_limit |-> 0, monthly_limit |-> 0]

\* a request slot may start only after the previous slot has started
\* (the slots are interchangeable)
MayStart(r) ==
    req[r].pc = "idle" /\ (IF r = 1 THEN TRUE ELSE req[r - 1].pc # "idle")

\* the Account row with primary key a is stored (acctStatus holds the status
\* column of a stored row and "deleted" for a row that has been deleted)
AccountExists(a) == a \in Accounts /\ acctStatus[a] # "deleted"

\* a queryset that is not filtered by the user: Account.objects.all()
get_queryset_all(user) == {a \in Accounts : AccountExists(a)}
\* AccountViewSet.get_queryset: the accounts get_object() can find
get_queryset(user) == {a \in Accounts : Owner(a) = user /\ AccountExists(a)}

\* TransferCreateSerializer.validate_receiver_account_id
validate_receiver_account_id(value) == AccountExists(value)

\* validate_amount letting a zero amount through
validate_amount_zero_ok(value) == value >= 0
\* TransferCreateSerializer.validate_amount / DepositSerializer.validate_amount
validate_amount(value) == value > 0

\* TransferCreateSerializer.validate: the view passes context={'request': ..},
\* so context.get('sender_account') is None and the check never rejects
ContextSenderAccount == 0
validate(sender_pk, receiver_account_id) ==
    ~(ContextSenderAccount # 0 /\ receiver_account_id = ContextSenderAccount)

\* TransferCreateSerializer.is_valid
TransferIsValid(sender_pk, receiver_account_id, amount) ==
    /\ validate_receiver_account_id(receiver_account_id)
    /\ validate_amount(amount)
    /\ validate(sender_pk, receiver_account_id)

Finish(r, code) == [req[r] EXCEPT !.pc = "done", !.status_code = code]

\* AccountViewSet.transfer up to the atomic block: get_object() loads the
\* sender row (404 outside the user's queryset), then the serializer runs
DjTransferValidate(r, user, pk, rid, amt) ==
    /\ MayStart(r)
    /\ LET q == [req[r] EXCEPT !.op = "transfer", !.user = user, !.pk = pk,
                               !.receiver_account_id = rid, !.amount = amt]
       IN req' = [req EXCEPT ![r] =
            IF pk \notin get_queryset(user)
            THEN [q EXCEPT !.pc = "done", !.status_code = 404]
            ELSE IF ~TransferIsValid(pk, rid, amt)
            THEN [q EXCEPT !.pc = "done", !.status_code = 400,
                           !.balance = balance[pk]]
            ELSE [q EXCEPT !.pc = "atomic", !.balance = balance[pk]]]
    /\ UNCHANGED <<balance, acctStatus, transfers, transactions>>

\* the atomic block treating a transfer equal to an earlier one as a repeat
\* of it: it answers 201 and writes nothing
DjTransferAtomic_dedup(r) ==
    /\ req[r].pc = "atomic" /\ req[r].op = "transfer"
    /\ LET s == req[r].pk
           rc == req[r].receiver_account_id
           amount == req[r].amount
           row == [sender |-> s, receiver |-> rc, amount |-> amount,
                   status |-> "completed"]
           sender_balance == req[r].balance - amount
           receiver_balance == balance[rc] + amount
       IN IF \E i \in 1..Len(transfers) : transfers[i] = row
          THEN UNCHANGED <<balance, transfers, transactions>>
          ELSE /\ balance' = [[balance EXCEPT ![s] = sender_balance]
                                       EXCEPT ![rc] = receiver_balance]
               /\ transfers' = Append(transfers, row)
               /\ transactions' = transactions \o
                     << [account |-> s, transaction_type |-> "transfer",
                         status |-> "completed", amount |-> -amount,
                         related_account |-> rc,
                         balance_after |-> sender_balance],
                        [account |-> rc, transaction_type |-> "transfer",
                         status |-> "completed", amount |-> amount,
                         related_account |-> s,
                         balance_after |-> receiver_balance] >>
    /\ req' = [req EXCEPT ![r] = Finish(r, 201)]
    /\ UNCHANGED acctStatus
\* AccountViewSet.transfer, the transaction.atomic() block, committed.
\* receiver_account is a fresh object read from the row at the start of the
\* block; sender_account is the object get_object() loaded before it.
\* The block is one step: the database runs it in isolation from the other
\* requests' blocks; what precedes the block (get_object) is not part of it.
DjTransferAtomic(r) ==
    /\ req[r].pc = "atomic" /\ req[r].op = "transfer"
    /\ LET s == req[r].pk
           rc == req[r].receiver_account_id
           amount == req[r].amount
           receiver_balance0 == balance[rc]
           sender_balance == req[r].balance - amount
           afterSender == [balance EXCEPT ![s] = sender_balance]
           receiver_balance == receiver_balance0 + amount
       IN /\ balance' = [afterSender EXCEPT ![rc] = receiver_balance]
          /\ transfers' = Append(transfers,
                [sender |-> s, receiver |-> rc, amount |-> amount,
                 status |-> "completed"])
          /\ transactions' = transactions \o
                << [account |-> s, transaction_type |-> "transfer",
                    status |-> "completed", amount |-> -amount,
                    related_account |-> rc, balance_after |-> sender_balance],
                   [account |-> rc, transaction_type |-> "transfer",
                    status |-> "completed", amount |-> amount,
                    related_account |-> s, balance_after |-> receiver_balance] >>
    /\ req' = [req EXCEPT ![r] = Finish(r, 201)]
    /\ UNCHANGED acctStatus

\* AccountViewSet.transfer: a statement of the atomic block raises; the block
\* is rolled back and the except clause answers 500
DjTransferError(r) ==
    /\ req[r].pc = "atomic" /\ req[r].op = "transfer"
    /\ req' = [req EXCEPT ![r] = Finish(r, 500)]
    /\ UNCHANGED <<balance, acctStatus, transfers, transactions>>

(* ---- AccountViewSet.transfer, the atomic block statement by statement ---- *)
\* the statements of the block that write, in the order the code runs them:
\* sender save, receiver save, Transfer row, debit row, credit row.
\* A request at one of these positions is about to run that statement.
TxPositions == <<"save_sender", "save_receiver", "create_transfer",
                 "create_debit", "create_credit">>
\* every position inside the block ("atomic": about to read the receiver)
TxInBlock == {"atomic"} \cup {TxPositions[i] : i \in 1..Len(TxPositions)}
\* how many writing statements request r has run
StmtsDone(r) ==
    IF req[r].pc \in {"idle", "done", "atomic"} THEN 0
    ELSE (CHOOSE i \in 1..Len(TxPositions) : TxPositions[i] = req[r].pc) - 1

\* account.save() issues an UPDATE of the row, which holds the row's write
\* lock until the transaction ends: request r holds the lock of account a
HoldsLock(r, a) ==
    /\ req[r].op = "transfer"
    /\ \/ StmtsDone(r) >= 1 /\ a = req[r].pk
       \/ StmtsDone(r) >= 2 /\ a = req[r].receiver_account_id
\* the row the next statement of r writes (0: it writes no existing row)
NextRow(r) ==
    IF req[r].pc = "save_sender" THEN req[r].pk
    ELSE IF req[r].pc = "save_receiver" THEN req[r].receiver_account_id
    ELSE 0
\* r cannot go on before o's transaction ends
WaitsFor(r, o) ==
    /\ r # o /\ req[r].op = "transfer" /\ NextRow(r) # 0
    /\ HoldsLock(o, NextRow(r))

\* the database as the transaction of r has it after n writing statements
TxWritten(r, n) ==
    LET sd == req[r].pk
        rc == req[r].receiver_account_id
        amount == req[r].amount
        sender_balance == req[r].balance - amount
        receiver_balance == req[r].receiver_balance + amount
        b1 == IF n >= 1 THEN [balance EXCEPT ![sd] = sender_balance]
              ELSE balance
        b2 == IF n >= 2 THEN [b1 EXCEPT ![rc] = receiver_balance] ELSE b1
        debit == [account |-> sd, transaction_type |-> "transfer",
                  status |-> "completed", amount |-> -amount,
                  related_account |-> rc, balance_after |-> sender_balance]
        credit == [account |-> rc, transaction_type |-> "transfer",
                   status |-> "completed", amount |-> amount,
                   related_account |-> sd, balance_after |-> receiver_balance]
    IN [balance |-> b2,
        transfers |-> IF n >= 3
                      THEN Append(transfers,
                              [sender |-> sd, receiver |-> rc,
                               amount |-> amount, status |-> "completed"])
                      ELSE transfers,
        transactions |-> transactions
                            \o (IF n >= 4 THEN <<debit>> ELSE << >>)
                            \o (IF n >= 5 THEN <<credit>> ELSE << >>)]

\* what is committed now
Committed ==
    [balance |-> balance, transfers |-> transfers,
     transactions |-> transactions]

\* leaving the block by an exception while each statement had been committed
\* on its own: what the block wrote so far stays
rollback_keeps_writes(committed, written) == written
\* transaction.atomic() left by an exception: the database is as committed
\* before the block, whatever the block had written
rollback(committed, written) == committed

\* receiver_account = Account.objects.get(id=...): the row as committed now
TxGetReceiver(r) ==
    /\ req[r].pc = "atomic" /\ req[r].op = "transfer"
    /\ req' = [req EXCEPT ![r].pc = "save_sender",
                          ![r].receiver_balance =
                              balance[req[r].receiver_account_id]]
    /\ UNCHANGED <<balance, acctStatus, transfers, transactions>>

\* sender_account.balance -= amount; sender_account.save(): waits for the
\* row's lock
TxSaveSender(r) ==
    /\ req[r].pc = "save_sender" /\ req[r].op = "transfer"
    /\ \A o \in Req \ {r} : ~HoldsLock(o, req[r].pk)
    /\ req' = [req EXCEPT ![r].pc = "save_receiver", ![r].debited = TRUE]
    /\ UNCHANGED <<balance, acctStatus, transfers, transactions>>

\* receiver_account.balance += amount; receiver_account.save()
TxSaveReceiver(r) ==
    /\ req[r].pc = "save_receiver" /\ req[r].op = "transfer"
    /\ \A o \in Req \ {r} : ~HoldsLock(o, req[r].receiver_account_id)
    /\ req' = [req EXCEPT ![r].pc = "create_transfer"]
    /\ UNCHANGED <<balance, acctStatus, transfers, transactions>>

\* Transfer.objects.create(...)
TxCreateTransfer(r) ==
    /\ req[r].pc = "create_transfer" /\ req[r].op = "transfer"
    /\ req' = [req EXCEPT ![r].pc = "create_debit"]
    /\ UNCHANGED <<balance, acctStatus, transfers, transactions>>

\* Transaction.objects.create(...) for the sender
TxCreateDebit(r) ==
    /\ req[r].pc = "create_debit" /\ req[r].op = "transfer"
    /\ req' = [req EXCEPT ![r].pc = "create_credit"]
    /\ UNCHANGED <<balance, acctStatus, transfers, transactions>>

\* Transaction.objects.create(...) for the receiver, the end of the block
\* (commit: the five writes become visible together) and the 201 response
TxCreateCreditAndCommit(r) ==
    /\ req[r].pc = "create_credit" /\ req[r].op = "transfer"
    /\ LET w == TxWritten(r, 5)
       IN /\ balance' = w.balance
          /\ transfers' = w.transfers
          /\ transactions' = w.transactions
    /\ req' = [req EXCEPT ![r] = Finish(r, 201)]
    /\ UNCHANGED acctStatus

\* the statement r is about to run raises: the block is left by the
\* exception and the except clause answers 500
TxRaise(r) ==
    /\ req[r].pc \in TxInBlock /\ req[r].op = "transfer"
    /\ LET d == rollback(Committed, TxWritten(r, StmtsDone(r)))
       IN /\ balance' = d.balance
          /\ transfers' = d.transfers
          /\ transactions' = d.transactions
    /\ req' = [req EXCEPT ![r] = Finish(r, 500)]
    /\ UNCHANGED acctStatus

\* AccountViewSet.deposit up to the atomic block
DjDepositValidate(r, user, pk, amt) ==
    /\ MayStart(r)
    /\ LET q == [req[r] EXCEPT !.op = "deposit", !.user = user, !.pk = pk,
                               !.amount = amt]
       IN req' = [req EXCEPT ![r] =
            IF pk \notin get_queryset(user)
            THEN [q EXCEPT !.pc = "done", !.status_code = 404]
            ELSE IF ~validate_amount(amt)
            THEN [q EXCEPT !.pc = "done", !.status_code = 400,
                           !.balance = balance[pk]]
            ELSE [q EXCEPT !.pc = "atomic", !.balance = balance[pk]]]
    /\ UNCHANGED <<balance, acctStatus, transfers, transactions>>

\* AccountViewSet.deposit, the transaction.atomic() block, committed
DjDepositAtomic(r) ==
    /\ req[r].pc = "atomic" /\ req[r].op = "deposit"
    /\ LET a == req[r].pk
           amount == req[r].amount
           account_balance == req[r].balance + amount
       IN /\ balance' = [balance EXCEPT ![a] = account_balance]
          /\ transactions' = Append(transactions,
                [account |-> a, transaction_type |-> "deposit",
                 status |-> "completed", amount |-> amount,
                 related_account |-> 0, balance_after |-> account_balance])
    /\ req' = [req EXCEPT ![r] = Finish(r, 201)]
    /\ UNCHANGED <<acctStatus, transfers>>

\* AccountViewSet.deposit: the atomic block raises and is rolled back
DjDepositError(r) ==
    /\ req[r].pc = "atomic" /\ req[r].op = "deposit"
    /\ req' = [req EXCEPT ![r] = Finish(r, 500)]
    /\ UNCHANGED <<balance, acctStatus, transfers, transactions>>

\* the fields of Account a PUT/PATCH through AccountSerializer may set:
\* every field of Meta.fields that is not in Meta.read_only_fields
AccountWritableFields == {"account_number", "account_type", "balance",
                          "status", "name", "is_active"}

\* AccountViewSet update / partial_update (ModelViewSet): the body carries a
\* balance and a status; the serializer writes the fields it may write
DjAccountUpdate(r, user, pk, newBalance, newStatus) ==
    /\ MayStart(r)
    /\ LET q == [req[r] EXCEPT !.op = "update", !.user = user, !.pk = pk,
                               !.amount = newBalance, !.status = newStatus]
       IN IF pk \notin get_queryset(user)
          THEN /\ req' = [req EXCEPT ![r] =
                            [q EXCEPT !.pc = "done", !.status_code = 404]]
               /\ UNCHANGED <<balance, acctStatus>>
          ELSE /\ req' = [req EXCEPT ![r] =
                            [q EXCEPT !.pc = "done", !.status_code = 200,
                                      !.balance = balance[pk]]]
               /\ balance' = IF "balance" \in AccountWritableFields
                             THEN [balance EXCEPT ![pk] = newBalance]
                             ELSE balance
               /\ acctStatus' = IF "status" \in AccountWritableFields
                                THEN [acctStatus EXCEPT ![pk] = newStatus]
                                ELSE acctStatus
    /\ UNCHANGED <<transfers, transactions>>

\* the credentials a Django request presents: no Authorization header, a
\* token key that is not stored, or the stored key of a user
DjCredentials ==
    {[kind |-> "none", user |-> 0], [kind |-> "unknown", user |-> 0]}
        \cup {[kind |-> "stored", user |-> u] : u \in Users}

\* AccountViewSet.deposit behind authentication_classes = [TokenAuthentication]
\* and permission_classes = [IsAuthenticated]: a request whose key is not
\* that of a user is answered 401 before the action runs
DjAuthRefused(r, cred) ==
    /\ MayStart(r)
    /\ cred.kind # "stored"
    /\ req' = [req EXCEPT ![r] =
           [req[r] EXCEPT !.op = "deposit", !.pc = "done",
                          !.status_code = 401]]
    /\ UNCHANGED <<balance, acctStatus, transfers, transactions>>

\* AccountViewSet.deposit called for the user of the key
DjAuthDeposit(r, cred, pk, amt) ==
    /\ MayStart(r)
    /\ cred.kind = "stored"
    /\ DjDepositValidate(r, cred.user, pk, amt)

\* AccountViewSet.balance (GET /api/accounts/<pk>/balance/): get_object(),
\* then the response with the balance
DjBalance(r, user, pk) ==
    /\ MayStart(r)
    /\ LET q == [req[r] EXCEPT !.op = "balance", !.user = user, !.pk = pk]
       IN req' = [req EXCEPT ![r] =
            IF pk \notin get_queryset(user)
            THEN [q EXCEPT !.pc = "done", !.status_code = 404]
            ELSE [q EXCEPT !.pc = "done", !.status_code = 200,
                           !.balance = balance[pk]]]
    /\ UNCHANGED <<balance, acctStatus, transfers, transactions>>

\* DELETE /api/accounts/<pk>/ (ModelViewSet.destroy, not overridden):
\* instance.delete() removes the Account row; Transaction.account and
\* Transfer.sender / receiver are on_delete=CASCADE, so the account's
\* Transaction rows and the Transfer rows it takes part in go with it, and
\* Transaction.related_account is on_delete=SET_NULL
DjAccountDestroy(r, user, pk) ==
    /\ MayStart(r)
    /\ LET q == [req[r] EXCEPT !.op = "destroy", !.user = user, !.pk = pk]
           KeepTransaction(t) == t.account # pk
           KeepTransfer(t) == t.sender # pk /\ t.receiver # pk
           kept == SelectSeq(transactions, KeepTransaction)
       IN IF pk \notin get_queryset(user)
          THEN /\ req' = [req EXCEPT ![r] =
                            [q EXCEPT !.pc = "done", !.status_code = 404]]
               /\ UNCHANGED <<acctStatus, transfers, transactions>>
          ELSE /\ req' = [req EXCEPT ![r] =
                            [q EXCEPT !.pc = "done", !.status_code = 204,
                                      !.balance = balance[pk]]]
               /\ acctStatus' = [acctStatus EXCEPT ![pk] = "deleted"]
               /\ transactions' =
                     [i \in DOMAIN kept |->
                        IF kept[i].related_account = pk
                        THEN [kept[i] EXCEPT !.related_account = 0]
                        ELSE kept[i]]
               /\ transfers' = SelectSeq(transfers, KeepTransfer)
    /\ UNCHANGED balance

(* ---- TransferViewSet ---- *)
\* Transfer.STATUS_CHOICES
TransferStatusChoices == {"pending", "completed", "failed"}

\* a transfer resource that also routes update, partial_update and destroy
TransferViewSetActions_writable ==
    {"list", "retrieve", "sent", "received",
     "update", "partial_update", "destroy"}
\* the actions the router maps for TransferViewSet: those of
\* ReadOnlyModelViewSet and the two GET actions of the class
TransferViewSetActions == {"list", "retrieve", "sent", "received"}

\* TransferViewSet.get_queryset: the ids of the transfers a user can see
TransferQueryset(user) ==
    {i \in DOMAIN transfers : \/ Owner(transfers[i].sender) = user
                              \/ Owner(transfers[i].receiver) = user}

\* PATCH /api/transfers/<id>/ with a status: a method the view set does not
\* route is answered 405 before the object is looked up; TransferSerializer
\* would let status be written (it is not among its read_only_fields)
DjTransferPatch(r, user, id, newStatus) ==
    /\ MayStart(r)
    /\ LET q == [req[r] EXCEPT !.op = "transfer_patch", !.user = user,
                               !.pk = id, !.status = newStatus]
       IN IF "partial_update" \notin TransferViewSetActions
          THEN /\ req' = [req EXCEPT ![r] =
                            [q EXCEPT !.pc = "done", !.status_code = 405]]
               /\ UNCHANGED transfers
          ELSE IF id \notin TransferQueryset(user)
          THEN /\ req' = [req EXCEPT ![r] =
                            [q EXCEPT !.pc = "done", !.status_code = 404]]
               /\ UNCHANGED transfers
          ELSE /\ req' = [req EXCEPT ![r] =
                            [q EXCEPT !.pc = "done", !.status_code = 200]]
               /\ transfers' = [transfers EXCEPT ![id].status = newStatus]
    /\ UNCHANGED <<balance, acctStatus, transactions>>

(* ---- VirtualCardViewSet ---- *)
\* the card_number of a row saved without one: the column has no default and
\* the serializer takes none from the request, so the empty string is stored
NoCardNumber == 0

\* the unique constraint of VirtualCard.card_number
card_number_unique(number) ==
    \A i \in DOMAIN cards : cards[i].card_number # number

\* DecimalField(max_digits=14, decimal_places=2) of daily_limit and
\* monthly_limit: no min_value is declared, every amount of the model's
\* range validates
validate_limit(value) == TRUE

\* POST /api/cards/ (ModelViewSet.create with VirtualCardSerializer): account
\* must name a stored Account (of any user), cardholder_name is required, the
\* limits are decimals; card_number is read-only.  serializer.save() inserts
\* the row; a second row without card_number breaks the unique constraint and
\* the IntegrityError is not caught (500)
DjCardCreate(r, user, account, has_name, daily_limit, monthly_limit) ==
    /\ MayStart(r)
    /\ LET q == [req[r] EXCEPT !.op = "card_create", !.user = user,
                               !.pk = account, !.daily_limit = daily_limit,
                               !.monthly_limit = monthly_limit]
       IN IF \/ ~AccountExists(account)
             \/ ~has_name
             \/ ~validate_limit(daily_limit)
             \/ ~validate_limit(monthly_limit)
          THEN /\ req' = [req EXCEPT ![r] =
                            [q EXCEPT !.pc = "done", !.status_code = 400]]
               /\ UNCHANGED cards
          ELSE IF ~card_number_unique(NoCardNumber)
          THEN /\ req' = [req EXCEPT ![r] =
                            [q EXCEPT !.pc = "done", !.status_code = 500]]
               /\ UNCHANGED cards
          ELSE /\ req' = [req EXCEPT ![r] =
                            [q EXCEPT !.pc = "done", !.status_code = 201]]
               /\ cards' = Append(cards,
                      [account |-> account, card_number |-> NoCardNumber,
                       status |-> "active", daily_limit |-> daily_limit,
                       monthly_limit |-> monthly_limit])
    /\ UNCHANGED <<balance, acctStatus, transfers, transactions>>

\* VirtualCardViewSet.create_card (POST /api/cards/create_card/):
\* VirtualCardCreateSerializer, then the card is created on the user's
\* account; Account.DoesNotExist is 400 and any other exception 500
DjCreateCard(r, user, has_name, daily_limit, monthly_limit) ==
    /\ MayStart(r)
    /\ LET q == [req[r] EXCEPT !.op = "create_card", !.user = user,
                               !.daily_limit = daily_limit,
                               !.monthly_limit = monthly_limit]
           own == get_queryset(user)
       IN IF \/ ~has_name
             \/ ~validate_limit(daily_limit)
             \/ ~validate_limit(monthly_limit)
             \/ own = {}
          THEN /\ req' = [req EXCEPT ![r] =
                            [q EXCEPT !.pc = "done", !.status_code = 400]]
               /\ UNCHANGED cards
          ELSE IF ~card_number_unique(NoCardNumber)
          THEN /\ req' = [req EXCEPT ![r] =
                            [q EXCEPT !.pc = "done", !.status_code = 500]]
               /\ UNCHANGED cards
          ELSE /\ req' = [req EXCEPT ![r] =
                            [q EXCEPT !.pc = "done", !.status_code = 201,
                                      !.pk = CHOOSE a \in own : TRUE]]
               /\ cards' = Append(cards,
                      [account |-> CHOOSE a \in own : TRUE,
                       card_number |-> NoCardNumber,
                       status |-> "active", daily_limit |-> daily_limit,
                       monthly_limit |-> monthly_limit])
    /\ UNCHANGED <<balance, acctStatus, transfers, transactions>>

(* ============================= Flask app =============================== *)
FIdleReq ==
    [pc |-> "idle", op |-> "none", user |-> 0, account_id |-> 0,
     to_account_number |-> 0, amount |-> 0, from_balance |-> 0,
     to_balance |-> 0, transaction_id |-> 0, status_code |-> 0]

FMayStart(r) ==
    fReq[r].pc = "idle" /\ (IF r = 1 THEN TRUE ELSE fReq[r - 1].pc # "idle")

FFinish(r, code) == [fReq[r] EXCEPT !.pc = "done", !.status_code = code]

\* DatabaseService.get_account_by_id / get_account_by_number: one session of
\* its own; the caller keeps the row's values as they were when it was read
get_account(id) == IF id \in Accounts THEN fBalance[id] ELSE -1
AccountFound(id) == id \in Accounts

\* DatabaseService.update_account_balance: one committed session
update_account_balance(bal, account_id, new_balance) ==
    IF account_id \in Accounts
    THEN [bal EXCEPT ![account_id] = new_balance]
    ELSE bal

\* DatabaseService.create_transaction: one committed session; the new row.
\* Its id is a fresh uuid: the number of the request that creates it.
create_transaction(id, transaction_type, amount, from_account_id, to_account_id) ==
    [id |-> id, transaction_type |-> transaction_type,
     amount |-> amount, from_account_id |-> from_account_id,
     to_account_id |-> to_account_id, status |-> "completed"]

\* DatabaseService.create_ledger_entry: one committed session; the new row
create_ledger_entry(account_id, debit, credit, balance_after, entry_type, transaction_id) ==
    [account_id |-> account_id, transaction_id |-> transaction_id,
     debit |-> debit, credit |-> credit, balance_after |-> balance_after,
     entry_type |-> entry_type]

\* ---- authentication ----
\* the roles a token can carry
Roles == {"customer", "admin"}
\* what a request presents: the kind of its Authorization header ("none":
\* no header, "malformed": not two words, "basic": another scheme, "bearer")
\* and, for a bearer header, the token: whether its signature verifies with
\* the service's key, whether its exp has passed, and its claims
AuthHeaders ==
    {[scheme |-> k, signed |-> FALSE, expired |-> FALSE, role |-> "none",
      user_id |-> 0] : k \in {"none", "malformed", "basic"}}
        \cup [scheme : {"bearer"}, signed : BOOLEAN, expired : BOOLEAN,
              role : Roles, user_id : Users]
\* what get_token_from_request and verify_token return for nothing
NoToken == [signed |-> FALSE, expired |-> FALSE, role |-> "none", user_id |-> 0]
\* the roles argument of require_auth(): None, as every banking route passes
\* it, or a list of roles
RoleLists == {{}, {"admin"}}

\* AuthService.get_token_from_request
get_token_from_request(h) ==
    IF h.scheme = "bearer"
    THEN [signed |-> h.signed, expired |-> h.expired, role |-> h.role,
          user_id |-> h.user_id]
    ELSE NoToken

\* verify_token decoding without the check of exp
verify_token_ignoring_exp(token) == IF token.signed THEN token ELSE NoToken
\* AuthService.verify_token: jwt.decode raises ExpiredSignatureError or
\* InvalidTokenError, and the method returns None
verify_token(token) ==
    IF token.signed /\ ~token.expired THEN token ELSE NoToken

\* AuthService.require_auth, the decorated function up to the call of the
\* handler: the status code it returns, 0 when it calls the handler
require_auth(h, roles) ==
    LET token == get_token_from_request(h)
        payload == verify_token(token)
    IN IF token = NoToken THEN 401
       ELSE IF payload = NoToken THEN 401
       ELSE IF roles # {} /\ payload.role \notin roles THEN 403
       ELSE 0

\* ---- balance ----
\* get_balance (GET /accounts/<account_id>/balance): get_account_by_id, the
\* ownership check, then the response with the balance
FlGetBalance(r, user, account_id) ==
    /\ FMayStart(r)
    /\ LET q == [fReq[r] EXCEPT !.op = "balance", !.user = user,
                                !.account_id = account_id]
       IN fReq' = [fReq EXCEPT ![r] =
            IF ~AccountFound(account_id)
            THEN [q EXCEPT !.pc = "done", !.status_code = 404]
            ELSE IF Owner(account_id) # user
            THEN [q EXCEPT !.pc = "done", !.status_code = 403]
            ELSE [q EXCEPT !.pc = "done", !.status_code = 200,
                           !.from_balance = get_account(account_id)]]
    /\ UNCHANGED <<fBalance, fTransactions, fLedger>>

\* ---- deposit ----
\* deposit: parse, amount check, get_account_by_id, ownership check
FlDepositStart(r, user, account_id, amt) ==
    /\ FMayStart(r)
    /\ LET q == [fReq[r] EXCEPT !.op = "deposit", !.user = user,
                                !.account_id = account_id, !.amount = amt]
       IN fReq' = [fReq EXCEPT ![r] =
            IF amt <= 0 THEN [q EXCEPT !.pc = "done", !.status_code = 400]
            ELSE IF ~AccountFound(account_id)
            THEN [q EXCEPT !.pc = "done", !.status_code = 404]
            ELSE IF Owner(account_id) # user
            THEN [q EXCEPT !.pc = "done", !.status_code = 403]
            ELSE [q EXCEPT !.pc = "create_transaction",
                           !.from_balance = get_account(account_id)]]
    /\ UNCHANGED <<fBalance, fTransactions, fLedger>>

\* POST /deposit behind require_auth(roles): the decorator answers 401 or
\* 403 itself; the handler is not called and reads nothing of the request
FlAuthRefused(r, h, roles) ==
    /\ FMayStart(r)
    /\ require_auth(h, roles) # 0
    /\ fReq' = [fReq EXCEPT ![r] =
           [fReq[r] EXCEPT !.op = "deposit", !.pc = "done",
                           !.status_code = require_auth(h, roles)]]
    /\ UNCHANGED <<fBalance, fTransactions, fLedger>>

\* POST /deposit behind require_auth(roles): the decorator calls the handler
\* with g.user_id taken from the token
FlAuthDeposit(r, h, roles, account_id, amt) ==
    /\ FMayStart(r)
    /\ require_auth(h, roles) = 0
    /\ FlDepositStart(r, h.user_id, account_id, amt)

\* deposit: db_service.create_transaction(...)
FlDepositCreateTransaction(r) ==
    /\ fReq[r].pc = "create_transaction" /\ fReq[r].op = "deposit"
    /\ LET t == create_transaction(r, "deposit", fReq[r].amount, 0,
                                   fReq[r].account_id)
       IN /\ fTransactions' = fTransactions \cup {t}
          /\ fReq' = [fReq EXCEPT ![r].pc = "update_balance",
                                  ![r].transaction_id = t.id]
    /\ UNCHANGED <<fBalance, fLedger>>

\* deposit: new_balance = account.balance + amount; update_account_balance
FlDepositUpdateBalance(r) ==
    /\ fReq[r].pc = "update_balance" /\ fReq[r].op = "deposit"
    /\ fBalance' = update_account_balance(fBalance, fReq[r].account_id,
                        fReq[r].from_balance + fReq[r].amount)
    /\ fReq' = [fReq EXCEPT ![r].pc = "ledger"]
    /\ UNCHANGED <<fTransactions, fLedger>>

\* deposit: create_ledger_entry and the 200 response
FlDepositLedger(r) ==
    /\ fReq[r].pc = "ledger" /\ fReq[r].op = "deposit"
    /\ fLedger' = [fLedger EXCEPT ![fReq[r].account_id] = Append(@,
            create_ledger_entry(fReq[r].account_id, 0, fReq[r].amount,
                fReq[r].from_balance + fReq[r].amount, "deposit",
                fReq[r].transaction_id))]
    /\ fReq' = [fReq EXCEPT ![r] = FFinish(r, 200)]
    /\ UNCHANGED <<fBalance, fTransactions>>

\* ---- withdraw ----
\* withdraw: parse, amount check, get_account_by_id, ownership check and
\* the sufficient-funds check on the values just read
FlWithdrawStart(r, user, account_id, amt) ==
    /\ FMayStart(r)
    /\ LET q == [fReq[r] EXCEPT !.op = "withdraw", !.user = user,
                                !.account_id = account_id, !.amount = amt]
       IN fReq' = [fReq EXCEPT ![r] =
            IF amt <= 0 THEN [q EXCEPT !.pc = "done", !.status_code = 400]
            ELSE IF ~AccountFound(account_id)
            THEN [q EXCEPT !.pc = "done", !.status_code = 404]
            ELSE IF Owner(account_id) # user
            THEN [q EXCEPT !.pc = "done", !.status_code = 403]
            ELSE IF get_account(account_id) < amt
            THEN [q EXCEPT !.pc = "done", !.status_code = 400,
                           !.from_balance = get_account(account_id)]
            ELSE [q EXCEPT !.pc = "create_transaction",
                           !.from_balance = get_account(account_id)]]
    /\ UNCHANGED <<fBalance, fTransactions, fLedger>>

\* withdraw: db_service.create_transaction(...)
FlWithdrawCreateTransaction(r) ==
    /\ fReq[r].pc = "create_transaction" /\ fReq[r].op = "withdraw"
    /\ LET t == create_transaction(r, "withdrawal", fReq[r].amount,
                                   fReq[r].account_id, 0)
       IN /\ fTransactions' = fTransactions \cup {t}
          /\ fReq' = [fReq EXCEPT ![r].pc = "update_balance",
                                  ![r].transaction_id = t.id]
    /\ UNCHANGED <<fBalance, fLedger>>

\* withdraw: new_balance = account.balance - amount; update_account_balance
FlWithdrawUpdateBalance(r) ==
    /\ fReq[r].pc = "update_balance" /\ fReq[r].op = "withdraw"
    /\ fBalance' = update_account_balance(fBalance, fReq[r].account_id,
                        fReq[r].from_balance - fReq[r].amount)
    /\ fReq' = [fReq EXCEPT ![r].pc = "ledger"]
    /\ UNCHANGED <<fTransactions, fLedger>>

\* withdraw: create_ledger_entry and the 200 response
FlWithdrawLedger(r) ==
    /\ fReq[r].pc = "ledger" /\ fReq[r].op = "withdraw"
    /\ fLedger' = [fLedger EXCEPT ![fReq[r].account_id] = Append(@,
            create_ledger_entry(fReq[r].account_id, fReq[r].amount, 0,
                fReq[r].from_balance - fReq[r].amount, "withdrawal",
                fReq[r].transaction_id))]
    /\ fReq' = [fReq EXCEPT ![r] = FFinish(r, 200)]
    /\ UNCHANGED <<fBalance, fTransactions>>

\* ---- transfer ----
\* FlTransferStart without the check of the amount
FlTransferStart_no_amount_check(r, user, from_account_id, to_account_number, amt) ==
    /\ FMayStart(r)
    /\ LET q == [fReq[r] EXCEPT !.op = "transfer", !.user = user,
                                !.account_id = from_account_id,
                                !.to_account_number = to_account_number,
                                !.amount = amt]
       IN fReq' = [fReq EXCEPT ![r] =
            IF ~AccountFound(from_account_id)
            THEN [q EXCEPT !.pc = "done", !.status_code = 404]
            ELSE IF Owner(from_account_id) # user
            THEN [q EXCEPT !.pc = "done", !.status_code = 403]
            ELSE [q EXCEPT !.pc = "get_to_account",
                           !.from_balance = get_account(from_account_id)]]
    /\ UNCHANGED <<fBalance, fTransactions, fLedger>>
\* transfer: parse, amount check, get_account_by_id(from), ownership check
FlTransferStart(r, user, from_account_id, to_account_number, amt) ==
    /\ FMayStart(r)
    /\ LET q == [fReq[r] EXCEPT !.op = "transfer", !.user = user,
                                !.account_id = from_account_id,
                                !.to_account_number = to_account_number,
                                !.amount = amt]
       IN fReq' = [fReq EXCEPT ![r] =
            IF amt <= 0 THEN [q EXCEPT !.pc = "done", !.status_code = 400]
            ELSE IF ~AccountFound(from_account_id)
            THEN [q EXCEPT !.pc = "done", !.status_code = 404]
            ELSE IF Owner(from_account_id) # user
            THEN [q EXCEPT !.pc = "done", !.status_code = 403]
            ELSE [q EXCEPT !.pc = "get_to_account",
                           !.from_balance = get_account(from_account_id)]]
    /\ UNCHANGED <<fBalance, fTransactions, fLedger>>

\* FlTransferGetToAccount going on without a destination account
FlTransferGetToAccount_no_404(r) ==
    /\ fReq[r].pc = "get_to_account" /\ fReq[r].op = "transfer"
    /\ fReq' = [fReq EXCEPT ![r] =
            IF fReq[r].from_balance < fReq[r].amount
            THEN [FFinish(r, 400) EXCEPT
                    !.to_balance = get_account(fReq[r].to_account_number)]
            ELSE [fReq[r] EXCEPT !.pc = "create_transaction",
                    !.to_balance = get_account(fReq[r].to_account_number)]]
    /\ UNCHANGED <<fBalance, fTransactions, fLedger>>
\* transfer: get_account_by_number(to) and the sufficient-funds check on the
\* from account as it was read
FlTransferGetToAccount(r) ==
    /\ fReq[r].pc = "get_to_account" /\ fReq[r].op = "transfer"
    /\ fReq' = [fReq EXCEPT ![r] =
            IF ~AccountFound(fReq[r].to_account_number)
            THEN FFinish(r, 404)
            ELSE IF fReq[r].from_balance < fReq[r].amount
            THEN [FFinish(r, 400) EXCEPT
                    !.to_balance = get_account(fReq[r].to_account_number)]
            ELSE [fReq[r] EXCEPT !.pc = "create_transaction",
                    !.to_balance = get_account(fReq[r].to_account_number)]]
    /\ UNCHANGED <<fBalance, fTransactions, fLedger>>

\* transfer: db_service.create_transaction(...)
FlTransferCreateTransaction(r) ==
    /\ fReq[r].pc = "create_transaction" /\ fReq[r].op = "transfer"
    /\ LET t == create_transaction(r, "transfer", fReq[r].amount,
                    fReq[r].account_id, fReq[r].to_account_number)
       IN /\ fTransactions' = fTransactions \cup {t}
          /\ fReq' = [fReq EXCEPT ![r].pc = "update_from",
                                  ![r].transaction_id = t.id]
    /\ UNCHANGED <<fBalance, fLedger>>

\* transfer: from_new_balance = from_account.balance - amount, written
FlTransferUpdateFrom(r) ==
    /\ fReq[r].pc = "update_from" /\ fReq[r].op = "transfer"
    /\ fBalance' = update_account_balance(fBalance, fReq[r].account_id,
                        fReq[r].from_balance - fReq[r].amount)
    /\ fReq' = [fReq EXCEPT ![r].pc = "update_to"]
    /\ UNCHANGED <<fTransactions, fLedger>>

\* transfer: to_new_balance = to_account.balance + amount, written
FlTransferUpdateTo(r) ==
    /\ fReq[r].pc = "update_to" /\ fReq[r].op = "transfer"
    /\ fBalance' = update_account_balance(fBalance, fReq[r].to_account_number,
                        fReq[r].to_balance + fReq[r].amount)
    /\ fReq' = [fReq EXCEPT ![r].pc = "ledger_out"]
    /\ UNCHANGED <<fTransactions, fLedger>>

\* transfer: the transfer_out ledger entry
FlTransferLedgerOut(r) ==
    /\ fReq[r].pc = "ledger_out" /\ fReq[r].op = "transfer"
    /\ fLedger' = [fLedger EXCEPT ![fReq[r].account_id] = Append(@,
            create_ledger_entry(fReq[r].account_id, fReq[r].amount, 0,
                fReq[r].from_balance - fReq[r].amount, "transfer_out",
                fReq[r].transaction_id))]
    /\ fReq' = [fReq EXCEPT ![r].pc = "ledger_in"]
    /\ UNCHANGED <<fBalance, fTransactions>>

\* transfer: the transfer_in ledger entry and the 200 response
FlTransferLedgerIn(r) ==
    /\ fReq[r].pc = "ledger_in" /\ fReq[r].op = "transfer"
    /\ fLedger' = [fLedger EXCEPT ![fReq[r].to_account_number] = Append(@,
            create_ledger_entry(fReq[r].to_account_number, 0, fReq[r].amount,
                fReq[r].to_balance + fReq[r].amount, "transfer_in",
                fReq[r].transaction_id))]
    /\ fReq' = [fReq EXCEPT ![r] = FFinish(r, 200)]
    /\ UNCHANGED <<fBalance, fTransactions>>

\* the positions at which a handler is about to call the database service
FlInFlight == {"get_to_account", "create_transaction", "update_balance",
               "update_from", "update_to", "ledger", "ledger_out", "ledger_in"}

\* deposit / withdraw / transfer: the service call the handler is about to
\* make raises (session_scope rolls back that call only, earlier calls are
\* already committed); the handler's except clause answers 500
FlHandlerError(r) ==
    /\ fReq[r].pc \in FlInFlight
    /\ fReq' = [fReq EXCEPT ![r] = FFinish(r, 500)]
    /\ UNCHANGED <<fBalance, fTransactions, fLedger>>

(* ============ scripts/activate_and_provision*.py (Flask database) ======= *)
\* The scripts work on the users, accounts and virtual_cards tables of the
\* Flask database.  A user is named by the number in its username
\* (acct_user1 is 1) and that number is its id; an account's id is its
\* position in the accounts table.
\* usernames = ["acct_user1", "acct_user2", "acct_user3"]
usernames == <<1, 2, 3>>
\* a user whose username is not one of usernames
OtherUser == 0
ScriptUsers == {OtherUser} \cup {usernames[k] : k \in DOMAIN usernames}
\* the number of accounts a run works on (len(accounts) < 3)
RequiredAccounts == 3
\* the balance the scripts look for and open placeholder accounts with
Million == 1000000
\* a run, and a run on the database the first one left
Runs == {1, 2}

IdleScript ==
    [pc |-> "idle", i |-> 0, accounts |-> << >>, idx |-> 0, runs |-> 0,
     broken |-> FALSE, newUsers |-> {}, newAccounts |-> << >>]

ScriptInit ==
    /\ dbUsers = {}
    /\ dbAccounts = << >>
    /\ dbCards = << >>
    /\ script = IdleScript

\* DatabaseService.create_user: username is unique
create_user(username) ==
    /\ script.pc \in {"idle", "done", "exit"}
    /\ username \notin dbUsers
    /\ dbUsers' = dbUsers \cup {username}
    /\ UNCHANGED <<dbAccounts, dbCards, script>>

\* DatabaseService.create_account: is_active takes the column's default
create_account(owner_id, initial_balance) ==
    /\ script.pc \in {"idle", "done", "exit"}
    /\ owner_id \in dbUsers
    /\ Len(dbAccounts) < MaxReq
    /\ dbAccounts' = Append(dbAccounts,
          [owner_id |-> owner_id, balance |-> initial_balance,
           is_active |-> TRUE])
    /\ UNCHANGED <<dbUsers, dbCards, script>>

InSeq(s, x) == \E k \in DOMAIN s : s[k] = x

\* session.query(Account).filter(Account.owner_id == user.id).first() over
\* the rows accs: the first account of the user, 0 for None
FirstAccountOf(accs, u) ==
    LET own == {a \in DOMAIN accs : accs[a].owner_id = u}
    IN IF own = {} THEN 0 ELSE CHOOSE a \in own : \A b \in own : a <= b

\* for u in usernames: the first account whose owner has that username
RECURSIVE FindByUsername(_)
FindByUsername(k) ==
    IF k = 0 THEN << >>
    ELSE LET found == FindByUsername(k - 1)
             acc == FirstAccountOf(dbAccounts, usernames[k])
         IN IF acc = 0 THEN found ELSE Append(found, acc)

\* if len(accounts) < 3: the accounts with balance >= 1,000,000 that are not
\* in the list yet, from account a on, until the list holds three
RECURSIVE FindByBalance(_, _)
FindByBalance(accounts, a) ==
    IF a > Len(dbAccounts) \/ Len(accounts) >= RequiredAccounts
    THEN accounts
    ELSE IF dbAccounts[a].balance >= Million /\ ~InSeq(accounts, a)
    THEN FindByBalance(Append(accounts, a), a + 1)
    ELSE FindByBalance(accounts, a + 1)

\* the account selection both scripts start with
SelectAccounts == FindByBalance(FindByUsername(Len(usernames)), 1)

\* session.query(VirtualCard).filter(account_id == acc.id).first(): 0 for None
ExistingCard(acc) ==
    LET of == {c \in DOMAIN dbCards : dbCards[c].account_id = acc}
    IN IF of = {} THEN 0 ELSE CHOOSE c \in of : \A d \in of : c <= d

\* the virtual_cards table after the card of account acc is updated, or
\* created when the account has none
ProvisionCard(acc) ==
    IF ExistingCard(acc) # 0
    THEN [dbCards EXCEPT ![ExistingCard(acc)].status = "active",
                         ![ExistingCard(acc)].provisioned = TRUE]
    ELSE Append(dbCards, [account_id |-> acc, status |-> "active",
                          provisioned |-> TRUE])

(* ---- scripts/activate_and_provision_flask.py ---- *)
\* The run is one session, committed at the end; no other session is open
\* during a run, so its writes are shown on the tables as they are flushed.
FlaskScriptSelect ==
    /\ script.pc \in {"idle", "done", "exit"}
    /\ script.runs + 1 \in Runs
    /\ script' = [IdleScript EXCEPT !.pc = "loop", !.i = 1,
                                    !.accounts = SelectAccounts,
                                    !.runs = script.runs + 1]
    /\ UNCHANGED <<dbUsers, dbAccounts, dbCards>>

\* one turn of while len(accounts) < 3: the user acct_user{i} is created
\* unless stored, its first account is taken, or opened when it has none,
\* and appended to the list
FlaskScriptPlaceholder ==
    /\ script.pc = "loop"
    /\ Len(script.accounts) < RequiredAccounts
    /\ LET uname == script.i
           acc == FirstAccountOf(dbAccounts, uname)
       IN /\ dbUsers' = dbUsers \cup {uname}
          /\ IF acc = 0
             THEN /\ dbAccounts' = Append(dbAccounts,
                        [owner_id |-> uname, balance |-> Million,
                         is_active |-> TRUE])
                  /\ script' = [script EXCEPT
                        !.accounts = Append(@, Len(dbAccounts) + 1),
                        !.i = @ + 1]
             ELSE /\ UNCHANGED dbAccounts
                  /\ script' = [script EXCEPT !.accounts = Append(@, acc),
                                              !.i = @ + 1]
    /\ UNCHANGED dbCards

\* the loop is left with three entries in the list
FlaskScriptLoopEnd ==
    /\ script.pc = "loop"
    /\ Len(script.accounts) >= RequiredAccounts
    /\ script' = [script EXCEPT !.pc = "cards", !.idx = 1]
    /\ UNCHANGED <<dbUsers, dbAccounts, dbCards>>

\* one turn of for idx, acc in enumerate(accounts, start=1)
FlaskScriptProvision ==
    /\ script.pc = "cards"
    /\ script.idx <= Len(script.accounts)
    /\ LET acc == script.accounts[script.idx]
       IN /\ dbAccounts' = [dbAccounts EXCEPT ![acc].is_active = TRUE]
          /\ dbCards' = ProvisionCard(acc)
    /\ script' = [script EXCEPT !.idx = @ + 1]
    /\ UNCHANGED dbUsers

\* session.commit() and the end of the run
FlaskScriptCommit ==
    /\ script.pc = "cards"
    /\ script.idx > Len(script.accounts)
    /\ script' = [script EXCEPT !.pc = "done"]
    /\ UNCHANGED <<dbUsers, dbAccounts, dbCards>>

(* ---- scripts/activate_and_provision.py ---- *)
\* i is kept up to the first name after usernames: no user of a later name is
\* stored unless this loop stored it, so every later value of i acts alike
NextI(i) == IF i > Len(usernames) THEN i ELSE i + 1

\* the accounts table as the session sees it: the stored rows and the rows
\* flushed by this run
SessionAccounts == dbAccounts \o script.newAccounts

ScriptSelect ==
    /\ script.pc \in {"idle", "done", "exit"}
    /\ script.runs + 1 \in Runs
    /\ script' = [IdleScript EXCEPT !.pc = "loop", !.i = 1,
                                    !.accounts = SelectAccounts,
                                    !.runs = script.runs + 1]
    /\ UNCHANGED <<dbUsers, dbAccounts, dbCards>>

\* one turn of while len(accounts) < 3 (lines 70-107).  flush_ok tells
\* whether the database takes the rows this turn flushes.  A flush that
\* raises rolls the session's transaction back, and the session raises on
\* every later use until session.rollback(), which the loop does not call;
\* except Exception prints the error and the turn ends with i += 1
ScriptPlaceholder(flush_ok) ==
    /\ script.pc = "loop"
    /\ Len(script.accounts) < RequiredAccounts
    /\ LET uname == script.i
           stored == uname \in dbUsers \cup script.newUsers
           acc == FirstAccountOf(SessionAccounts, uname)
       IN IF script.broken
          THEN script' = [script EXCEPT !.i = NextI(@)]
          ELSE IF stored /\ acc # 0
          THEN script' = [script EXCEPT !.accounts = Append(@, acc),
                                        !.i = NextI(@)]
          ELSE IF flush_ok
          THEN script' = [script EXCEPT
                  !.newUsers = @ \cup ({uname} \ dbUsers),
                  !.newAccounts = IF acc # 0 THEN @ ELSE Append(@,
                        [owner_id |-> uname, balance |-> Million,
                         is_active |-> TRUE]),
                  !.accounts = Append(@, IF acc # 0 THEN acc
                                         ELSE Len(SessionAccounts) + 1),
                  !.i = NextI(@)]
          ELSE script' = [script EXCEPT !.broken = TRUE,
                                        !.newUsers = {},
                                        !.newAccounts = << >>,
                                        !.i = NextI(@)]
    /\ UNCHANGED <<dbUsers, dbAccounts, dbCards>>

\* session.commit() of the users and accounts the loop created (lines
\* 109-115); when it raises, the session is rolled back and the script
\* exits
ScriptCommit(commit_ok) ==
    /\ script.pc = "loop"
    /\ Len(script.accounts) >= RequiredAccounts
    /\ IF script.broken \/ ~commit_ok
       THEN /\ script' = [script EXCEPT !.pc = "exit"]
            /\ UNCHANGED <<dbUsers, dbAccounts>>
       ELSE /\ script' = [script EXCEPT !.pc = "cards", !.idx = 1,
                                        !.newUsers = {},
                                        !.newAccounts = << >>]
            /\ dbUsers' = dbUsers \cup script.newUsers
            /\ dbAccounts' = SessionAccounts
    /\ UNCHANGED dbCards

\* one turn of for idx, acc in enumerate(accounts, start=1), each with its
\* own commits (lines 118-177)
ScriptProvision ==
    /\ script.pc = "cards"
    /\ script.idx <= Len(script.accounts)
    /\ LET acc == script.accounts[script.idx]
       IN /\ dbAccounts' = [dbAccounts EXCEPT ![acc].is_active = TRUE]
          /\ dbCards' = ProvisionCard(acc)
    /\ script' = [script EXCEPT !.idx = @ + 1]
    /\ UNCHANGED dbUsers

\* the summary is printed and the run ends
ScriptEnd ==
    /\ script.pc = "cards"
    /\ script.idx > Len(script.accounts)
    /\ script' = [script EXCEPT !.pc = "done"]
    /\ UNCHANGED <<dbUsers, dbAccounts, dbCards>>

(* ========================== specifications ============================= *)
DjInit ==
    /\ balance = [a \in Accounts |-> OpeningBalance(a)]
    /\ acctStatus = [a \in Accounts |-> "active"]
    /\ transfers = << >>
    /\ transactions = << >>
    /\ req = [r \in Req |-> IdleReq]
    /\ cards = << >>

FlInit ==
    /\ fBalance = [a \in Accounts |-> OpeningBalance(a)]
    /\ fTransactions = {}
    /\ fLedger = [a \in Accounts |-> << >>]
    /\ fReq = [r \in Req |-> FIdleReq]

Init == DjInit /\ FlInit /\ ScriptInit

\* transfer requests of the Django app
DjTransferNext ==
    \/ \E r \in Req, user \in Users, pk \in Accounts, rid \in ReceiverIds,
          amt \in Amounts : DjTransferValidate(r, user, pk, rid, amt)
    \/ \E r \in Req : DjTransferAtomic(r)
    \/ \E r \in Req : DjTransferError(r)

\* deposit requests of the Django app
DjDepositNext ==
    \/ \E r \in Req, user \in Users, pk \in Accounts, amt \in Amounts :
          DjDepositValidate(r, user, pk, amt)
    \/ \E r \in Req : DjDepositAtomic(r)
    \/ \E r \in Req : DjDepositError(r)

\* the ledger operations of the Django app
DjLedgerNext == DjTransferNext \/ DjDepositNext

\* the Django ledger: deposit and transfer requests only
SpecDjLedger == Init /\ [][
    DjLedgerNext /\ UNCHANGED flVars /\ UNCHANGED <<cardVars, scriptVars>>]_vars

\* every public request of the Django account resource
DjNext ==
    \/ DjLedgerNext
    \/ \E r \in Req, user \in Users, pk \in Accounts, b \in Amounts,
          st \in {"active", "closed"} : DjAccountUpdate(r, user, pk, b, st)

\* the Django account resource: ledger operations and PUT/PATCH
SpecDjango == Init /\ [][
    DjNext /\ UNCHANGED flVars /\ UNCHANGED <<cardVars, scriptVars>>]_vars

FAccountIds == Accounts \cup {MissingAccount}

\* POST /accounts/<id>/deposit
FlDepositNext ==
    \/ \E r \in Req, user \in Users, a \in FAccountIds, amt \in Amounts :
          FlDepositStart(r, user, a, amt)
    \/ \E r \in Req : FlDepositCreateTransaction(r)
    \/ \E r \in Req : FlDepositUpdateBalance(r)
    \/ \E r \in Req : FlDepositLedger(r)

\* POST /accounts/<id>/withdraw
FlWithdrawNext ==
    \/ \E r \in Req, user \in Users, a \in FAccountIds, amt \in Amounts :
          FlWithdrawStart(r, user, a, amt)
    \/ \E r \in Req : FlWithdrawCreateTransaction(r)
    \/ \E r \in Req : FlWithdrawUpdateBalance(r)
    \/ \E r \in Req : FlWithdrawLedger(r)

\* POST /transfers
FlTransferNext ==
    \/ \E r \in Req, user \in Users, a \in FAccountIds, n \in FAccountIds,
          amt \in Amounts : FlTransferStart(r, user, a, n, amt)
    \/ \E r \in Req : FlTransferGetToAccount(r)
    \/ \E r \in Req : FlTransferCreateTransaction(r)
    \/ \E r \in Req : FlTransferUpdateFrom(r)
    \/ \E r \in Req : FlTransferUpdateTo(r)
    \/ \E r \in Req : FlTransferLedgerOut(r)
    \/ \E r \in Req : FlTransferLedgerIn(r)

FlNext ==
    \/ FlDepositNext
    \/ FlWithdrawNext
    \/ FlTransferNext
    \/ \E r \in Req : FlHandlerError(r)

\* the Flask banking routes
SpecFlask == Init /\ [][
    FlNext /\ UNCHANGED djVars /\ UNCHANGED <<cardVars, scriptVars>>]_vars

\* no Django request is under way
DjIdle == \A r \in Req : req[r].pc = "idle"
\* no Flask request is under way
FlIdle == \A r \in Req : fReq[r].pc = "idle"

\* deposits only, of either application (each has its own database, so a
\* behaviour exercises one of them), overlapping freely
DepositNext ==
    \/ FlIdle /\ DjDepositNext /\ UNCHANGED flVars
    \/ DjIdle /\ FlDepositNext /\ UNCHANGED djVars
    \/ DjIdle /\ (\E r \in Req : FlHandlerError(r)) /\ UNCHANGED djVars

SpecDeposit == Init /\ [][
    DepositNext /\ UNCHANGED <<cardVars, scriptVars>>]_vars

\* the accounts a user owns
OwnAccounts(user) == {a \in Accounts : Owner(a) = user}

\* a Flask request is between two calls of the database service
FlBusy(r) == fReq[r].pc \in FlInFlight

\* the step does not start a Flask request while another one is being served
FlSerial ==
    \A r \in Req : (fReq[r].pc = "idle" /\ fReq'[r].pc # "idle")
                      => \A o \in Req : ~FlBusy(o)

\* transfers only, of either application, each sent by the owner of the
\* account it takes the money from; the Django ones overlap freely, the
\* Flask ones (seven database sessions each) are served one at a time
OwnTransferNext ==
    \/ /\ FlIdle /\ UNCHANGED flVars
       /\ \/ \E r \in Req, user \in Users : \E pk \in OwnAccounts(user),
                rid \in ReceiverIds, amt \in Amounts :
                DjTransferValidate(r, user, pk, rid, amt)
          \/ \E r \in Req : DjTransferAtomic(r)
          \/ \E r \in Req : DjTransferError(r)
    \/ /\ DjIdle /\ UNCHANGED djVars
       /\ \/ \E r \in Req, user \in Users : \E a \in OwnAccounts(user),
                n \in FAccountIds, amt \in Amounts :
                FlTransferStart(r, user, a, n, amt)
          \/ \E r \in Req : FlTransferGetToAccount(r)
          \/ \E r \in Req : FlTransferCreateTransaction(r)
          \/ \E r \in Req : FlTransferUpdateFrom(r)
          \/ \E r \in Req : FlTransferUpdateTo(r)
          \/ \E r \in Req : FlTransferLedgerOut(r)
          \/ \E r \in Req : FlTransferLedgerIn(r)
          \/ \E r \in Req : FlHandlerError(r)
       /\ FlSerial

SpecOwnTransfer == Init /\ [][
    OwnTransferNext /\ UNCHANGED <<cardVars, scriptVars>>]_vars

\* Django transfers, each sent by the owner of the sending account, with the
\* atomic block run statement by statement under the row locks of the
\* database
DjTxNext ==
    \/ \E r \in Req, user \in Users : \E pk \in OwnAccounts(user),
          rid \in ReceiverIds, amt \in Amounts :
          DjTransferValidate(r, user, pk, rid, amt)
    \/ \E r \in Req : TxGetReceiver(r)
    \/ \E r \in Req : TxSaveSender(r)
    \/ \E r \in Req : TxSaveReceiver(r)
    \/ \E r \in Req : TxCreateTransfer(r)
    \/ \E r \in Req : TxCreateDebit(r)
    \/ \E r \in Req : TxCreateCreditAndCommit(r)
    \/ \E r \in Req : TxRaise(r)

SpecDjTx == Init /\ [][
    DjTxNext /\ UNCHANGED flVars /\ UNCHANGED <<cardVars, scriptVars>>]_vars

\* the Transfer records of the Django app: transfers sent by the owner of
\* the sending account, overlapping freely, and requests to change the
\* status of a stored Transfer
TransferRecordsNext ==
    \/ \E r \in Req, user \in Users : \E pk \in OwnAccounts(user),
          rid \in ReceiverIds, amt \in Amounts :
          DjTransferValidate(r, user, pk, rid, amt)
    \/ \E r \in Req : DjTransferAtomic(r)
    \/ \E r \in Req : DjTransferError(r)
    \/ \E r \in Req, user \in Users, id \in Req,
          st \in TransferStatusChoices : DjTransferPatch(r, user, id, st)

SpecTransferRecords == Init /\ [][
    TransferRecordsNext /\ UNCHANGED flVars /\ UNCHANGED <<cardVars, scriptVars>>]_vars

\* a Django request is between its validation and the end of its atomic block
DjBusy(r) == req[r].pc = "atomic"

\* the step does not start a Django request while another one is being served
DjSerial ==
    \A r \in Req : (req[r].pc = "idle" /\ req'[r].pc # "idle")
                      => \A o \in Req : ~DjBusy(o)

\* Django transfers called one after the other, as the test's loop calls them
SuccessiveNext == DjTransferNext /\ DjSerial /\ UNCHANGED flVars

SpecSuccessive == Init /\ [][
    SuccessiveNext /\ UNCHANGED <<cardVars, scriptVars>>]_vars

\* the Account and Transaction records of the Django app: deposits,
\* transfers and the deletion of an account, called one after the other
AccountRecordsNext ==
    /\ \/ DjLedgerNext
       \/ \E r \in Req, user \in Users, pk \in Accounts :
             DjAccountDestroy(r, user, pk)
    /\ DjSerial

SpecAccountRecords == Init /\ [][
    AccountRecordsNext /\ UNCHANGED flVars /\ UNCHANGED <<cardVars, scriptVars>>]_vars

\* the accounts that exist and that a user does not own
ForeignAccounts(user) == {a \in Accounts : Owner(a) # user}

\* access to the accounts of other users, in either application: every
\* kind of request on an account the caller does not own, next to deposits
\* into the caller's own accounts
ForeignNext ==
    \/ /\ FlIdle /\ UNCHANGED flVars
       /\ \/ \E r \in Req, user \in Users : \E pk \in OwnAccounts(user),
                amt \in Amounts : DjDepositValidate(r, user, pk, amt)
          \/ \E r \in Req : DjDepositAtomic(r)
          \/ \E r \in Req : DjDepositError(r)
          \/ \E r \in Req, user \in Users : \E pk \in ForeignAccounts(user),
                amt \in Amounts : DjDepositValidate(r, user, pk, amt)
          \/ \E r \in Req, user \in Users : \E pk \in ForeignAccounts(user),
                rid \in ReceiverIds, amt \in Amounts :
                DjTransferValidate(r, user, pk, rid, amt)
          \/ \E r \in Req, user \in Users : \E pk \in ForeignAccounts(user) :
                DjBalance(r, user, pk)
    \/ /\ DjIdle /\ UNCHANGED djVars
       /\ \/ \E r \in Req, user \in Users : \E a \in OwnAccounts(user),
                amt \in Amounts : FlDepositStart(r, user, a, amt)
          \/ \E r \in Req : FlDepositCreateTransaction(r)
          \/ \E r \in Req : FlDepositUpdateBalance(r)
          \/ \E r \in Req : FlDepositLedger(r)
          \/ \E r \in Req : FlHandlerError(r)
          \/ \E r \in Req, user \in Users : \E a \in ForeignAccounts(user),
                amt \in Amounts : FlDepositStart(r, user, a, amt)
          \/ \E r \in Req, user \in Users : \E a \in ForeignAccounts(user),
                amt \in Amounts : FlWithdrawStart(r, user, a, amt)
          \/ \E r \in Req, user \in Users : \E a \in ForeignAccounts(user),
                n \in FAccountIds, amt \in Amounts :
                FlTransferStart(r, user, a, n, amt)
          \/ \E r \in Req, user \in Users : \E a \in ForeignAccounts(user) :
                FlGetBalance(r, user, a)

SpecForeign == Init /\ [][
    ForeignNext /\ UNCHANGED <<cardVars, scriptVars>>]_vars

\* deposits of either application with the credentials each request
\* presents
AuthNext ==
    \/ /\ FlIdle /\ UNCHANGED flVars
       /\ \/ \E r \in Req, cred \in DjCredentials : DjAuthRefused(r, cred)
          \/ \E r \in Req, cred \in DjCredentials, pk \in Accounts,
                amt \in Amounts : DjAuthDeposit(r, cred, pk, amt)
          \/ \E r \in Req : DjDepositAtomic(r)
          \/ \E r \in Req : DjDepositError(r)
    \/ /\ DjIdle /\ UNCHANGED djVars
       /\ \/ \E r \in Req, h \in AuthHeaders, roles \in RoleLists :
                FlAuthRefused(r, h, roles)
          \/ \E r \in Req, h \in AuthHeaders, roles \in RoleLists,
                a \in FAccountIds, amt \in Amounts :
                FlAuthDeposit(r, h, roles, a, amt)
          \/ \E r \in Req : FlDepositCreateTransaction(r)
          \/ \E r \in Req : FlDepositUpdateBalance(r)
          \/ \E r \in Req : FlDepositLedger(r)
          \/ \E r \in Req : FlHandlerError(r)

SpecAuth == Init /\ [][
    AuthNext /\ UNCHANGED <<cardVars, scriptVars>>]_vars

\* the requests that create a virtual card
CardNext ==
    \/ \E r \in Req, user \in Users, account \in ReceiverIds,
          has_name \in BOOLEAN, d \in Amounts, m \in Amounts :
          DjCardCreate(r, user, account, has_name, d, m)
    \/ \E r \in Req, user \in Users, has_name \in BOOLEAN,
          d \in Amounts, m \in Amounts : DjCreateCard(r, user, has_name, d, m)

SpecCards == Init /\ [][
    CardNext /\ UNCHANGED <<flVars, scriptVars>>]_vars

\* users and accounts created through the database service between runs
SetupNext ==
    \/ \E u \in ScriptUsers : create_user(u)
    \/ \E u \in ScriptUsers, b \in {0, Million} : create_account(u, b)

FlaskScriptNext ==
    \/ FlaskScriptSelect
    \/ FlaskScriptPlaceholder
    \/ FlaskScriptLoopEnd
    \/ FlaskScriptProvision
    \/ FlaskScriptCommit

\* runs of scripts/activate_and_provision_flask.py
ProvisionFlaskNext == SetupNext \/ FlaskScriptNext

SpecProvisionFlask == Init /\ [][
    ProvisionFlaskNext /\ UNCHANGED <<djVars, flVars, cardVars>>]_vars

ScriptNext ==
    \/ ScriptSelect
    \/ \E flush_ok \in BOOLEAN : ScriptPlaceholder(flush_ok)
    \/ \E commit_ok \in BOOLEAN : ScriptCommit(commit_ok)
    \/ ScriptProvision
    \/ ScriptEnd

\* runs of scripts/activate_and_provision.py
ProvisionNext == SetupNext \/ ScriptNext

\* a run that has started goes on: the interpreter always takes the
\* script's next step
SpecProvision ==
    /\ Init
    /\ [][ProvisionNext /\ UNCHANGED <<djVars, flVars, cardVars>>]_vars
    /\ WF_vars(ScriptNext /\ UNCHANGED <<djVars, flVars, cardVars>>)

(* ============================== claims ================================= *)
\* signed amounts of the Transaction rows of account a, summed
TransactionSum(a) ==
    SumSeq([i \in 1..Len(transactions) |->
              IF transactions[i].account = a THEN transactions[i].amount
              ELSE 0], Len(transactions))

\* C1: Django ledger: starting from non-negative balances, after any sequence
\* of deposit and transfer requests every account's balance is >= 0 (a
\* transfer of more than the sender's balance is rejected).
C1_BalanceNeverNegative == \A a \in Accounts : balance[a] >= 0

\* the Flask request r has returned from the transfer handler
FlTransferReturned(r) == fReq[r].op = "transfer" /\ fReq[r].pc = "done"
\* the Transaction row created by Flask request r is stored
TransactionPersisted(r) == \E t \in fTransactions : t.id = r
\* a Ledger row of the given type for the Transaction of request r is stored
LedgerPersisted(r, entry_type) ==
    \E a \in Accounts : \E i \in DOMAIN fLedger[a] :
        /\ fLedger[a][i].transaction_id = r
        /\ fLedger[a][i].entry_type = entry_type
\* no Flask request other than r has started
OnlyRequest(r) == \A o \in Req \ {r} : fReq[o].pc = "idle"

\* C2: Flask transfer atomicity: once the transfer handler has returned, its
\* effects (Transaction row, both balance updates, transfer_out and
\* transfer_in Ledger rows) are either all stored or all missing.
C2_FlaskTransferAllOrNothing ==
    \A r \in Req : FlTransferReturned(r) =>
        /\ TransactionPersisted(r) <=> LedgerPersisted(r, "transfer_out")
        /\ TransactionPersisted(r) <=> LedgerPersisted(r, "transfer_in")
        /\ (/\ OnlyRequest(r)
            /\ fReq[r].account_id \in Accounts
            /\ fReq[r].to_account_number \in Accounts
            /\ fReq[r].account_id # fReq[r].to_account_number)
             => LET moved ==
                      /\ fBalance[fReq[r].account_id] =
                           OpeningBalance(fReq[r].account_id) - fReq[r].amount
                      /\ fBalance[fReq[r].to_account_number] =
                           OpeningBalance(fReq[r].to_account_number)
                             + fReq[r].amount
                    untouched ==
                      \A a \in Accounts : fBalance[a] = OpeningBalance(a)
                IN \/ TransactionPersisted(r) /\ moved
                   \/ ~TransactionPersisted(r) /\ untouched

\* the number of Django requests that are transfers from account s to account t
TransfersFromTo(s, t) ==
    Cardinality({r \in Req : req[r].op = "transfer" /\ req[r].pk = s
                             /\ req[r].receiver_account_id = t})

\* every Django request is a transfer between the two accounts that succeeded,
\* all of the same amount, as many from 1 to 2 as from 2 to 1
OpposingTransfersAllSucceeded ==
    /\ \A r \in Req : /\ req[r].pc = "done" /\ req[r].op = "transfer"
                      /\ req[r].status_code = 201
                      /\ req[r].pk # req[r].receiver_account_id
                      /\ req[r].amount = req[1].amount
    /\ TransfersFromTo(1, 2) = TransfersFromTo(2, 1)

C4_SameAccountRejected ==
    [][\A r \in Req :
         (/\ req'[r] # req[r]
          /\ req'[r].op = "transfer"
          /\ req'[r].pk = req'[r].receiver_account_id)
         => /\ balance' = balance
            /\ transfers' = transfers
            /\ transactions' = transactions
            /\ req'[r].status_code # 201]_vars

\* C5: the balance of an existing account changes only in a step of a ledger
\* operation (the atomic block of a deposit or of a transfer); no other
\* request on the account resource changes it.
C5_BalanceOnlyByLedger ==
    [][(balance' # balance) =>
          \E r \in Req : /\ req[r].pc = "atomic"
                         /\ req[r].op \in {"deposit", "transfer"}
                         /\ req'[r].pc = "done"]_vars

\* the Transaction rows that carry the data of Transfer row t on the given
\* side: the account, the counterparty and the signed amount
CorrelatedTransactions(t, account, related, signed_amount) ==
    {j \in DOMAIN transactions :
        /\ transactions[j].transaction_type = "transfer"
        /\ transactions[j].account = account
        /\ transactions[j].related_account = related
        /\ transactions[j].amount = signed_amount}

\* C6: every completed Transfer has exactly one sender-side debit Transaction
\* and exactly one receiver-side credit Transaction, of opposite signs and of
\* the Transfer's amount, that the stored correlation attributes to it
\* (stated for the Transfers between two different accounts).
C6_TransferHasOneDebitOneCredit ==
    \A i \in DOMAIN transfers :
        LET t == transfers[i] IN
        (t.status = "completed" /\ t.sender # t.receiver) =>
            /\ Cardinality(CorrelatedTransactions(t, t.sender, t.receiver,
                                                  -t.amount)) = 1
            /\ Cardinality(CorrelatedTransactions(t, t.receiver, t.sender,
                                                  t.amount)) = 1

\* C7: every account's balance equals its opening balance plus the sum of the
\* signed amounts of its Transaction rows, after any deposits and transfers.
C7_BalanceIsSumOfTransactions ==
    \A a \in Accounts : balance[a] = OpeningBalance(a) + TransactionSum(a)

\* no Flask request is in flight and none has failed with a server error
FlAtRest ==
    \A r \in Req : /\ fReq[r].pc \in {"idle", "done"}
                   /\ fReq[r].status_code # 500

\* C8: at rest, the Ledger rows of every account, in creation order, chain:
\* each balance_after is the previous balance_after (the opening balance for
\* the first row) plus credit minus debit, and the last balance_after is the
\* account's current balance.
C8_BalanceAfterChains ==
    FlAtRest =>
        \A a \in Accounts :
            /\ \A i \in DOMAIN fLedger[a] :
                 fLedger[a][i].balance_after =
                    (IF i = 1 THEN OpeningBalance(a)
                     ELSE fLedger[a][i - 1].balance_after)
                    + fLedger[a][i].credit - fLedger[a][i].debit
            /\ Len(fLedger[a]) > 0 =>
                 fLedger[a][Len(fLedger[a])].balance_after = fBalance[a]

\* every Flask request is a successful withdraw or outgoing transfer that
\* debits account a
AllDebitsSucceeded(a) ==
    \A r \in Req : /\ fReq[r].pc = "done" /\ fReq[r].status_code = 200
                   /\ fReq[r].op \in {"withdraw", "transfer"}
                   /\ fReq[r].account_id = a
                   /\ fReq[r].op = "transfer" => fReq[r].to_account_number # a

\* the amounts of all Flask requests, summed
FlAmountSum == SumSeq([r \in Req |-> fReq[r].amount], MaxReq)

\* C9: concurrent Flask withdraw and transfer calls that debit one account
\* never make its balance negative, and every call that reported success is
\* reflected in the final balance.
C9_ConcurrentDebitsReflected ==
    /\ \A a \in Accounts : fBalance[a] >= 0
    /\ \A a \in Accounts :
         AllDebitsSucceeded(a) => fBalance[a] = OpeningBalance(a) - FlAmountSum

\* every Django request is a successful deposit to account a
AllDepositsSucceeded(a) ==
    \A r \in Req : /\ req[r].pc = "done" /\ req[r].status_code = 201
                   /\ req[r].op = "deposit" /\ req[r].pk = a

\* the amounts of all Django requests, summed
DjAmountSum == SumSeq([r \in Req |-> req[r].amount], MaxReq)

\* the deposit Transaction rows of account a
DepositRows(a) ==
    {j \in DOMAIN transactions : /\ transactions[j].account = a
                                 /\ transactions[j].transaction_type = "deposit"}

\* C10: after N concurrent successful deposits to one account, in any
\* interleaving, its balance is the opening balance plus the sum of the
\* amounts and N deposit records exist.
C10_ConcurrentDepositsAddUp ==
    \A a \in Accounts :
        AllDepositsSucceeded(a) =>
            /\ balance[a] = OpeningBalance(a) + DjAmountSum
            /\ Cardinality(DepositRows(a)) = MaxReq

\* the step starts Django request r as a call of op
DjStarts(r, op) == req[r].pc = "idle" /\ req'[r].pc # "idle" /\ req'[r].op = op
\* the step starts Flask request r as a call of op
FlStarts(r, op) == fReq[r].pc = "idle" /\ fReq'[r].pc # "idle" /\ fReq'[r].op = op

\* C18: a deposit whose amount is zero or negative is refused at once and
\* changes nothing, in both applications: Django answers 400 (404 when the
\* account is not one of the caller's, which get_object() decides first),
\* Flask answers 400 before it looks at the account.
C18_NonPositiveDepositRejected ==
    [][\A r \in Req :
         /\ (DjStarts(r, "deposit") /\ req'[r].amount <= 0) =>
               /\ req'[r].pc = "done"
               /\ req'[r].status_code =
                     IF req'[r].pk \in get_queryset(req'[r].user)
                     THEN 400 ELSE 404
               /\ UNCHANGED <<balance, acctStatus, transfers, transactions>>
         /\ (FlStarts(r, "deposit") /\ fReq'[r].amount <= 0) =>
               /\ fReq'[r].pc = "done"
               /\ fReq'[r].status_code = 400
               /\ UNCHANGED <<fBalance, fTransactions, fLedger>>]_vars

\* a deposit of a non-positive amount into the caller's own account was
\* answered 400 after an earlier deposit had gone through
C18_Witness ==
    \E r, o \in Req :
        /\ req[r].op = "deposit" /\ req[r].amount <= 0
        /\ req[r].pk \in get_queryset(req[r].user)
        /\ req[r].pc = "done" /\ req[r].status_code = 400
        /\ req[o].op = "deposit" /\ req[o].status_code = 201

\* the step ends Django request r, a call of op, with the given status code
DjReturns(r, op, code) ==
    /\ req[r].pc = "atomic" /\ req[r].op = op
    /\ req'[r].pc = "done" /\ req'[r].status_code = code

\* C20: a successful deposit increases the account's balance by exactly the
\* amount, appends exactly one deposit record whose balance_after is the new
\* balance, and leaves every other account, record and transfer unchanged.
C20_DepositAddsAmount ==
    [][\A r \in Req : DjReturns(r, "deposit", 201) =>
         LET a == req[r].pk
         IN /\ balance'[a] = balance[a] + req[r].amount
            /\ \A b \in Accounts \ {a} : balance'[b] = balance[b]
            /\ Len(transactions') = Len(transactions) + 1
            /\ SubSeq(transactions', 1, Len(transactions)) = transactions
            /\ LET t == transactions'[Len(transactions')]
               IN /\ t.account = a /\ t.transaction_type = "deposit"
                  /\ t.amount = req[r].amount
                  /\ t.balance_after = balance'[a]
            /\ UNCHANGED <<transfers, acctStatus>>]_vars

\* C15: a transfer whose amount is zero or negative is refused with 400
\* before anything is written, in both applications (Django answers 404
\* instead when the sending account is not one of the caller's).
C15_NonPositiveTransferRejected ==
    [][\A r \in Req :
         /\ (DjStarts(r, "transfer") /\ req'[r].amount <= 0) =>
               /\ req'[r].pc = "done"
               /\ req'[r].status_code =
                     IF req'[r].pk \in get_queryset(req'[r].user)
                     THEN 400 ELSE 404
               /\ UNCHANGED <<balance, acctStatus, transfers, transactions>>
         /\ (FlStarts(r, "transfer") /\ fReq'[r].amount <= 0) =>
               /\ fReq'[r].pc = "done"
               /\ fReq'[r].status_code = 400
               /\ UNCHANGED <<fBalance, fTransactions, fLedger>>]_vars

\* a Flask transfer between two existing accounts, sent by the owner, was
\* answered 400 for its amount alone, after another transfer went through
C15_Witness ==
    \E r, o \in Req :
        /\ fReq[r].op = "transfer" /\ fReq[r].amount <= 0
        /\ fReq[r].account_id \in OwnAccounts(fReq[r].user)
        /\ fReq[r].to_account_number \in Accounts
        /\ fReq[r].to_account_number # fReq[r].account_id
        /\ fReq[r].pc = "done" /\ fReq[r].status_code = 400
        /\ fReq[o].op = "transfer" /\ fReq[o].status_code = 200

\* C16: a transfer to an account that does not exist is refused and changes
\* nothing. Django refuses it when the request is validated, with 400 (404
\* when the sending account is not one of the caller's). Flask refuses it
\* when it looks the destination up, with 404 (500 if that lookup raises),
\* unless an earlier check has already refused the request: 400 for the
\* amount, 404 or 403 for the sending account.
C16_MissingReceiverRejected ==
    [][\A r \in Req :
         /\ (DjStarts(r, "transfer")
                /\ req'[r].receiver_account_id \notin Accounts) =>
               /\ req'[r].pc = "done"
               /\ req'[r].status_code =
                     IF req'[r].pk \in get_queryset(req'[r].user)
                     THEN 400 ELSE 404
               /\ UNCHANGED <<balance, acctStatus, transfers, transactions>>
         /\ (FlStarts(r, "transfer")
                /\ fReq'[r].to_account_number \notin Accounts) =>
               /\ \/ fReq'[r].pc = "get_to_account" /\ fReq'[r].amount > 0
                  \/ /\ fReq'[r].pc = "done"
                     /\ fReq'[r].status_code \in {400, 403, 404}
               /\ UNCHANGED <<fBalance, fTransactions, fLedger>>
         /\ (fReq[r].pc = "get_to_account" /\ fReq'[r] # fReq[r]
                /\ fReq[r].to_account_number \notin Accounts) =>
               /\ fReq'[r].pc = "done"
               /\ fReq'[r].status_code \in {404, 500}
               /\ UNCHANGED <<fBalance, fTransactions, fLedger>>]_vars

\* a Flask transfer of a positive amount the sender can afford, to an
\* account that does not exist, was answered 404
C16_Witness ==
    \E r \in Req :
        /\ fReq[r].op = "transfer" /\ fReq[r].amount > 0
        /\ fReq[r].account_id \in OwnAccounts(fReq[r].user)
        /\ fReq[r].from_balance >= fReq[r].amount
        /\ fReq[r].to_account_number \notin Accounts
        /\ fReq[r].pc = "done" /\ fReq[r].status_code = 404

\* the Django transfers answered 201
DjSucceeded == {r \in Req : req[r].op = "transfer" /\ req[r].pc = "done"
                              /\ req[r].status_code = 201}
\* every successful transfer so far moved amount m from account sd to rc
AllSucceededAre(sd, rc, m) ==
    \A r \in DjSucceeded : /\ req[r].pk = sd
                           /\ req[r].receiver_account_id = rc
                           /\ req[r].amount = m

\* C14: transfers are not deduplicated. When the successful transfers of a
\* run are k successive transfers of the same amount from S to R (S # R),
\* there are k Transfer rows, one per call, k pairs of Transaction rows (a
\* debit on S, a credit on R), S holds k times the amount less and R k times
\* the amount more than at the start, and no other balance has changed.
C14_RepeatedTransfersAllRecorded ==
    \A sd \in Accounts, rc \in Accounts, m \in 1..MaxAmount :
        (sd # rc /\ AllSucceededAre(sd, rc, m)) =>
            LET k == Cardinality(DjSucceeded)
            IN /\ Len(transfers) = k
               /\ \A i \in 1..k :
                     transfers[i] = [sender |-> sd, receiver |-> rc,
                                     amount |-> m, status |-> "completed"]
               /\ Len(transactions) = 2 * k
               /\ \A i \in 1..k :
                     /\ transactions[2 * i - 1].account = sd
                     /\ transactions[2 * i - 1].amount = 0 - m
                     /\ transactions[2 * i - 1].related_account = rc
                     /\ transactions[2 * i].account = rc
                     /\ transactions[2 * i].amount = m
                     /\ transactions[2 * i].related_account = sd
               /\ balance[sd] = OpeningBalance(sd) - k * m
               /\ balance[rc] = OpeningBalance(rc) + k * m
               /\ \A a \in Accounts \ {sd, rc} : balance[a] = OpeningBalance(a)

\* every request slot has sent the same transfer of 1 from account 1 to
\* account 2, and each was answered 201
C14_Witness ==
    /\ DjSucceeded = Req
    /\ AllSucceededAre(1, 2, 1)

\* C13: a successful transfer of amount from A to B, A # B, takes exactly
\* amount off A's balance, adds exactly amount to B's, is recorded as
\* completed, leaves every other account unchanged and so preserves the sum
\* of all balances.
C13_TransferMovesAmount ==
    [][\A r \in Req :
         (DjReturns(r, "transfer", 201)
             /\ req[r].pk # req[r].receiver_account_id) =>
            LET A == req[r].pk
                B == req[r].receiver_account_id
            IN /\ balance'[A] = balance[A] - req[r].amount
               /\ balance'[B] = balance[B] + req[r].amount
               /\ \A c \in Accounts \ {A, B} : balance'[c] = balance[c]
               /\ transfers'[Len(transfers')].status = "completed"]_vars

\* C17: a Flask withdrawal of more than the balance is refused (400,
\* insufficient funds), leaves the balance as it was and records nothing; a
\* withdrawal of at most the balance takes exactly the amount off the
\* balance and records one withdrawal.
C17_WithdrawChecksFunds ==
    [][\A r \in Req :
         /\ (FlStarts(r, "withdraw") /\ fReq'[r].amount > 0
                /\ fReq'[r].account_id \in OwnAccounts(fReq'[r].user)
                /\ fReq'[r].amount > fBalance[fReq'[r].account_id]) =>
               /\ fReq'[r].pc = "done" /\ fReq'[r].status_code = 400
               /\ UNCHANGED <<fBalance, fTransactions, fLedger>>
         /\ (fReq[r].op = "withdraw" /\ fReq[r].pc = "update_balance"
                /\ fReq'[r].pc = "ledger") =>
               LET a == fReq[r].account_id
               IN /\ fBalance'[a] = fBalance[a] - fReq[r].amount
                  /\ \A b \in Accounts \ {a} : fBalance'[b] = fBalance[b]
         /\ (fReq[r].op = "withdraw" /\ fReq[r].pc = "ledger"
                /\ fReq'[r].status_code = 200) =>
               LET a == fReq[r].account_id
               IN /\ Len(fLedger'[a]) = Len(fLedger[a]) + 1
                  /\ fLedger'[a][Len(fLedger'[a])].entry_type = "withdrawal"
                  /\ fLedger'[a][Len(fLedger'[a])].debit = fReq[r].amount
                  /\ Cardinality({t \in fTransactions :
                        t.id = fReq[r].transaction_id}) = 1]_vars

\* C19: a deposit into an account whose status is not active is refused
\* with an error and changes nothing.
C19_InactiveAccountRefusesDeposit ==
    [][\A r \in Req :
         (DjStarts(r, "deposit")
             /\ req'[r].pk \in get_queryset(req'[r].user)
             /\ acctStatus[req'[r].pk] # "active") =>
            /\ req'[r].pc = "done" /\ req'[r].status_code >= 400
            /\ UNCHANGED <<balance, acctStatus, transfers, transactions>>]_vars

\* C11: two concurrent transfers between the same two accounts in opposite
\* directions never deadlock, because every transfer takes the write locks
\* of its two accounts in one fixed global order: no two transfers ever wait
\* for each other.
C11_NoDeadlock ==
    \A r, o \in Req : ~(WaitsFor(r, o) /\ WaitsFor(o, r))

\* C12: when a statement of the atomic block of AccountViewSet.transfer
\* raises after the sender has been debited (the receiver's save, the
\* creation of the Transfer or of either Transaction), the call answers 500
\* and none of its writes persists: balances, Transfer rows and Transaction
\* rows are as they were committed.
C12_FailedTransferPersistsNothing ==
    [][\A r \in Req :
         (req[r].op = "transfer" /\ req[r].pc \in TxInBlock
             /\ req[r].debited
             /\ req'[r].pc = "done" /\ req'[r].status_code # 201) =>
            /\ req'[r].status_code = 500
            /\ balance' = balance
            /\ transfers' = transfers
            /\ transactions' = transactions]_vars

\* a transfer raised after its sender's save and was answered 500, while
\* another transfer was committed
C12_Witness ==
    \E r, o \in Req :
        /\ req[r].op = "transfer" /\ req[r].pc = "done"
        /\ req[r].status_code = 500 /\ req[r].debited
        /\ req[o].op = "transfer" /\ req[o].status_code = 201

\* the balance of the account of Flask request r differs from its opening
\* balance by the amount of r (added by a deposit, taken by a withdrawal)
BalanceChangedBy(r) ==
    LET a == fReq[r].account_id
    IN fBalance[a] = OpeningBalance(a) +
          (IF fReq[r].op = "deposit" THEN fReq[r].amount
           ELSE 0 - fReq[r].amount)

\* C21: the Flask deposit and withdraw handlers store the Transaction, the
\* new balance and the Ledger entry as one all-or-nothing unit: once the
\* handler has returned, also after a storage failure between two of its
\* steps, the completed Transaction exists if and only if its Ledger entry
\* exists and (when no other request touched the database) if and only if
\* the balance has changed by the amount.
C21_FlaskDepositWithdrawAllOrNothing ==
    \A r \in Req :
        (fReq[r].op \in {"deposit", "withdraw"} /\ fReq[r].pc = "done"
            /\ fReq[r].account_id \in Accounts /\ fReq[r].amount > 0) =>
           /\ TransactionPersisted(r) <=>
                LedgerPersisted(r, IF fReq[r].op = "deposit"
                                   THEN "deposit" ELSE "withdrawal")
           /\ OnlyRequest(r) => (TransactionPersisted(r) <=> BalanceChangedBy(r))

\* the Ledger rows of account a of the given type that carry Transaction id
LedgerRows(a, entry_type, id) ==
    {i \in DOMAIN fLedger[a] : /\ fLedger[a][i].entry_type = entry_type
                               /\ fLedger[a][i].transaction_id = id}

\* C27: Flask ledger pairing: every Transaction of type transfer whose
\* handler has returned has exactly one transfer_out Ledger entry on the
\* from account, with debit = amount, and exactly one transfer_in Ledger
\* entry on the to account, with credit = amount, both carrying its id.
C27_TransferHasLedgerPair ==
    \A t \in fTransactions :
        (t.transaction_type = "transfer" /\ fReq[t.id].pc = "done") =>
           /\ Cardinality(LedgerRows(t.from_account_id, "transfer_out",
                                     t.id)) = 1
           /\ \A i \in LedgerRows(t.from_account_id, "transfer_out", t.id) :
                 fLedger[t.from_account_id][i].debit = t.amount
           /\ Cardinality(LedgerRows(t.to_account_id, "transfer_in",
                                     t.id)) = 1
           /\ \A i \in LedgerRows(t.to_account_id, "transfer_in", t.id) :
                 fLedger[t.to_account_id][i].credit = t.amount

C23_AccountsAndTransactionsKept ==
    [][/\ \A a \in Accounts : AccountExists(a) => AccountExists(a)'
       /\ Len(transactions') >= Len(transactions)
       /\ \A i \in DOMAIN transactions :
             transactions'[i] = transactions[i]]_vars

\* C24: a request of a user to read the balance of, deposit into, withdraw
\* from or transfer from an account of another user is refused at once,
\* discloses no balance, changes no balance and creates no record. Django
\* answers 404; Flask answers 403 (400 when the amount of a deposit,
\* withdrawal or transfer is not positive, which it checks first).
C24_ForeignAccountRefused ==
    [][\A r \in Req :
         /\ (\E op \in {"balance", "deposit", "transfer"} : DjStarts(r, op))
             /\ req'[r].pk \in ForeignAccounts(req'[r].user) =>
               /\ req'[r].pc = "done" /\ req'[r].status_code = 404
               /\ req'[r].balance = 0
               /\ UNCHANGED <<balance, acctStatus, transfers, transactions>>
         /\ (\E op \in {"balance", "deposit", "withdraw", "transfer"} :
                 FlStarts(r, op))
             /\ fReq'[r].account_id \in ForeignAccounts(fReq'[r].user) =>
               /\ fReq'[r].pc = "done"
               /\ fReq'[r].status_code =
                     IF fReq'[r].op # "balance" /\ fReq'[r].amount <= 0
                     THEN 400 ELSE 403
               /\ fReq'[r].from_balance = 0
               /\ UNCHANGED <<fBalance, fTransactions, fLedger>>]_vars

\* user 2's transfer of a positive amount out of an account of user 1 that
\* holds money put there by a deposit was answered 404
C24_Witness ==
    \E r, o \in Req :
        /\ req[r].op = "transfer" /\ req[r].amount > 0
        /\ req[r].pk \in ForeignAccounts(req[r].user)
        /\ req[r].receiver_account_id \in OwnAccounts(req[r].user)
        /\ req[r].pc = "done" /\ req[r].status_code = 404
        /\ req[o].op = "deposit" /\ req[o].pk = req[r].pk
        /\ req[o].status_code = 201

\* the step ends Flask request r at once with the given status code, before
\* its handler has read anything of the request
FlRefusedUnread(r, code) ==
    /\ fReq[r].pc = "idle" /\ fReq'[r].pc = "done"
    /\ fReq'[r].status_code = code
    /\ fReq'[r].user = 0 /\ fReq'[r].account_id = 0 /\ fReq'[r].amount = 0
    /\ UNCHANGED <<fBalance, fTransactions, fLedger>>

\* what require_auth answers for every header and every list of roles: 401
\* unless the header is a bearer token that verifies and has not expired,
\* else 403 when roles are required and the token's role is not among them,
\* else the call of the handler
RequireAuthOutcomes ==
    \A h \in AuthHeaders, roles \in RoleLists :
        LET valid == h.scheme = "bearer" /\ h.signed /\ ~h.expired
        IN require_auth(h, roles) =
              IF ~valid THEN 401
              ELSE IF roles # {} /\ h.role \notin roles THEN 403
              ELSE 0

\* C25: a request without valid credentials (no Authorization header, a
\* malformed one, another scheme, a token whose signature does not verify or
\* whose exp has passed) is answered 401 by require_auth before the handler
\* runs and changes nothing; a valid token whose role is not among the
\* required roles is answered 403 the same way; the handler runs, for the
\* token's user, in every other case. Django answers 401 before the action
\* runs when the request carries no stored token key.
C25_CredentialsRequired ==
    [][/\ \A r \in Req : FlStarts(r, "deposit") =>
             \/ FlRefusedUnread(r, 401)
             \/ FlRefusedUnread(r, 403)
             \/ fReq'[r].user \in Users
       /\ RequireAuthOutcomes
       /\ \A r \in Req : DjStarts(r, "deposit") =>
             \/ /\ req'[r].pc = "done" /\ req'[r].status_code = 401
                /\ req'[r].user = 0 /\ req'[r].pk = 0
                /\ UNCHANGED <<balance, acctStatus, transfers, transactions>>
             \/ req'[r].user \in Users]_vars

\* a Flask deposit was refused with 401 and another with 403, after a
\* deposit of an authenticated user had gone through
C25_Witness ==
    \E r, o \in Req :
        /\ fReq[r].op = "deposit" /\ fReq[r].pc = "done"
        /\ fReq[r].status_code \in {401, 403} /\ fReq[r].user = 0
        /\ fReq[o].op = "deposit" /\ fReq[o].status_code = 200
\* C26: a POST /api/cards/ that carries a negative daily_limit or a negative
\* monthly_limit is answered 400 and leaves the VirtualCard rows as they were.
C26_NegativeLimitRejected ==
    [][\A r \in Req :
          (/\ DjStarts(r, "card_create")
           /\ (req'[r].daily_limit < 0 \/ req'[r].monthly_limit < 0))
          => (req'[r].status_code = 400 /\ UNCHANGED cards)]_vars

\* the virtual cards of account a
CardsOf(a) == {c \in DOMAIN dbCards : dbCards[c].account_id = a}

\* C28: when a run of activate_and_provision_flask.py has completed, on any
\* database and on the database a previous run left, its list holds three
\* distinct accounts, each of them is active and has exactly one virtual
\* card, which is active and provisioned.
C28_ThreeAccountsOneCardEach ==
    script.pc = "done" =>
        /\ Len(script.accounts) = RequiredAccounts
        /\ \A j, k \in DOMAIN script.accounts :
              j # k => script.accounts[j] # script.accounts[k]
        /\ \A k \in DOMAIN script.accounts :
              LET a == script.accounts[k]
              IN /\ dbAccounts[a].is_active
                 /\ Cardinality(CardsOf(a)) = 1
                 /\ \A c \in CardsOf(a) : /\ dbCards[c].status = "active"
                                          /\ dbCards[c].provisioned

====
